---- MODULE Spec2Model ----
(***************************************************************************)
(* Model of sukhijab/mbse:                                                 *)
(*   mbse/models/environment_models/pendulum_swing_up.py                   *)
(*       PendulumReward, PendulumSwingUpEnv, PendulumDynamicsModel         *)
(*   mbse/trainer/model_based/model_based_trainer.py                       *)
(*       ModelBasedTrainer.train                                           *)
(*                                                                         *)
(* Numbers are fixed point.  Units:                                        *)
(*   angle            1/ANGLE_UNITS rad   (pi is PI units)                 *)
(*   angular velocity 1/OMEGA_UNITS rad/s                                  *)
(*   torque, action   1/TORQUE_UNITS N m                                   *)
(*   cos, sin         1/TRIG_SCALE                                         *)
(*   reward           1/(ANGLE_UNITS^2)                                    *)
(***************************************************************************)
EXTENDS Integers, Sequences, FiniteSets, TLC

\* ------------------------------------------------------------ fixed point
OMEGA_UNITS == 200
TORQUE_UNITS == 2
\* dt = 0.05 s = 1/DT_INV
DT_INV == 20
\* one angular-velocity unit held for dt turns the pendulum by one angle unit
ANGLE_UNITS == DT_INV * OMEGA_UNITS
TRIG_SCALE == 5 * ANGLE_UNITS
\* pi, in angle units (3.142 rad); a quarter turn and an eighth turn are whole
PI == 12568
TWO_PI == 2 * PI
HALF_PI == PI \div 2
QUARTER_PI == PI \div 4

\* physical constants of the pendulum (gym's PendulumEnv defaults)
g == 10
m == 1
l == 1
\* max_speed = 8 rad/s, max_torque = 2 N m, in model units
max_speed == 8 * OMEGA_UNITS
max_torque == 2 * TORQUE_UNITS
\* ctrl_cost_weight = 0.001 = 1/CTRL_COST_INV
CTRL_COST_INV == 1000

Abs(x) == IF x < 0 THEN -x ELSE x

\* a / b rounded to the nearest integer (b > 0), as a floating multiply rounds
RoundDiv(a, b) == (2 * a + b) \div (2 * b)

\* np.clip / jnp.clip
Clip(x, lo, hi) == IF x < lo THEN lo ELSE IF x > hi THEN hi ELSE x

\* Taylor series of sin and cos on [0, pi/4]; X is the angle in 1/TRIG_SCALE rad
SinT(X) ==
    LET X2 == RoundDiv(X * X, TRIG_SCALE)
        T3 == RoundDiv(X * X2, 6 * TRIG_SCALE)
        T5 == RoundDiv(T3 * X2, 20 * TRIG_SCALE)
        T7 == RoundDiv(T5 * X2, 42 * TRIG_SCALE)
    IN  X - T3 + T5 - T7

CosT(X) ==
    LET X2 == RoundDiv(X * X, TRIG_SCALE)
        C2 == RoundDiv(X2, 2)
        C4 == RoundDiv(X2 * X2, 24 * TRIG_SCALE)
        C6 == RoundDiv(C4 * X2, 30 * TRIG_SCALE)
        C8 == RoundDiv(C6 * X2, 56 * TRIG_SCALE)
    IN  TRIG_SCALE - C2 + C4 - C6 + C8

ToTrigArg(x) == (x * TRIG_SCALE) \div ANGLE_UNITS

\* sin on the first quadrant, x in angle units, 0 <= x <= HALF_PI
SinQ(x) ==
    IF x <= QUARTER_PI THEN SinT(ToTrigArg(x)) ELSE CosT(ToTrigArg(HALF_PI - x))

\* np.sin / jnp.sin of an angle in angle units (any integer)
Sin(t) ==
    LET r == t % TWO_PI
    IN  IF r <= HALF_PI THEN SinQ(r)
        ELSE IF r <= PI THEN SinQ(PI - r)
        ELSE IF r <= PI + HALF_PI THEN -SinQ(r - PI)
        ELSE -SinQ(TWO_PI - r)

\* np.cos / jnp.cos
Cos(t) == Sin(t + HALF_PI)

\* the angle x of the first quadrant, lo <= x <= hi, whose sine is nearest to v
RECURSIVE InvSinQ(_, _, _)
InvSinQ(lo, hi, v) ==
    IF hi - lo <= 1
    THEN IF Abs(SinQ(hi) - v) < Abs(SinQ(lo) - v) THEN hi ELSE lo
    ELSE LET mid == (lo + hi) \div 2
         IN  IF SinQ(mid) <= v THEN InvSinQ(mid, hi, v) ELSE InvSinQ(lo, mid, v)

\* jnp.arctan2(s, c): the angle in (-pi, pi] with that sine and cosine
Arctan2(s, c) ==
    LET b == IF Abs(s) <= Abs(c)
             THEN InvSinQ(0, HALF_PI, Abs(s))
             ELSE HALF_PI - InvSinQ(0, HALF_PI, Abs(c))
    IN  IF c >= 0 /\ s >= 0 THEN b
        ELSE IF c < 0 /\ s >= 0 THEN PI - b
        ELSE IF c < 0 THEN b - PI
        ELSE -b

\* gym's angle_normalize: ((x + pi) % (2 pi)) - pi
angle_normalize(x) == ((x + PI) % TWO_PI) - PI

\* ------------------------------------------------------------ bounds
\* env.step / env.reset calls in one behaviour of the environment
MaxEnvCalls == 3

\* reset_noise_scale values (in 1/OMEGA_UNITS): the default 0.01, and max_speed
NoiseScales == {2, max_speed}
\* actions handed to step and predict, some beyond the torque bound
Actions == {-6, 0, 3, 5}
\* (min_action, max_action) of the agent's convention and (low, high) of the
\* environment's action space: a [-1, 1] convention and a native one
ActionBounds ==
    { [min_action |-> -TORQUE_UNITS, max_action |-> TORQUE_UNITS,
       low |-> -max_torque, high |-> max_torque],
      [min_action |-> -max_torque, max_action |-> max_torque,
       low |-> -max_torque, high |-> max_torque] }
\* states whose observation is handed to predict besides the environment's own
ProbeStates == { <<HALF_PI + 7, max_speed>> }
\* actions handed to the reward model's predict
RewardActions == {5}

\* ------------------------------------------------------------ state
VARIABLES
    state,              \* PendulumSwingUpEnv.state: <<theta, omega>>
    last_u,             \* PendulumSwingUpEnv.last_u: <<>> is None, <<u>> a torque
    reset_noise_scale,  \* constructor argument of the environment
    action_bounds,      \* min_action, max_action, action_space.low/high
    env_np_random,      \* state of the environment's own generator np_random
    env_calls,          \* number of step and reset calls made
    last_step,          \* what the last step call was given and returned
    last_reset,         \* what the last reset call was given and returned
    last_pred           \* what the last call of the dynamics model's or the
                        \* reward model's predict was given and returned

env_vars == <<state, last_u, reset_noise_scale, action_bounds, env_np_random,
              env_calls, last_step, last_reset, last_pred>>

\* ------------------------------------------------------------ reward model
\* PendulumReward.state_non_sparse_reward; omega in 1/OMEGA_UNITS rad/s
state_non_sparse_reward(theta, omega) ==
    LET th == angle_normalize(theta)
        w  == omega * (ANGLE_UNITS \div OMEGA_UNITS)
    IN  -(th * th + RoundDiv(w * w, 10))

\* PendulumReward.input_cost: ctrl_cost_weight * u^2
input_cost(u) ==
    RoundDiv(u * u * ANGLE_UNITS * (ANGLE_UNITS \div TORQUE_UNITS),
             TORQUE_UNITS * CTRL_COST_INV)

\* PendulumReward.state_reward
state_reward(obs) ==
    state_non_sparse_reward(Arctan2(obs[2], obs[1]), obs[3])

\* PendulumReward.predict(obs, action)
RewardPredict(obs, action) == state_reward(obs) - input_cost(action)

\* ------------------------------------------------------------ observation
\* _get_obs: (cos theta, sin theta, thetadot)
GetObs(s) == <<Cos(s[1]), Sin(s[1]), s[2]>>

GetReducedStateOneArg(obs) == <<Arctan2(obs[2], Abs(obs[1])), obs[3]>>
\* PendulumDynamicsModel._get_reduced_state
GetReducedState(obs) == <<Arctan2(obs[2], obs[1]), obs[3]>>

\* ------------------------------------------------------------ dynamics
\* omega_dot * dt of (3g/(2l) sin(th) + 3/(m l^2) u), in angular-velocity units
OmegaDotDt(th, u) ==
    LET omega_dot == RoundDiv(3 * g * Sin(th), 2 * l)
                     + RoundDiv(3 * TRIG_SCALE * u, TORQUE_UNITS * m * l * l)
    IN  RoundDiv(omega_dot * OMEGA_UNITS, TRIG_SCALE * DT_INV)

\* x * dt for an angular velocity x, in angle units
TimesDt(x) == (x * ANGLE_UNITS) \div (OMEGA_UNITS * DT_INV)

\* the reward of PendulumSwingUpEnv.step: the reward model on the observation
\* of the state s the step starts from and on the action as given
StepRewardOfTorque(s, a) == RewardPredict(GetObs(s), Clip(a, -max_torque, max_torque))
StepReward(s, a) == RewardPredict(GetObs(s), a)

StepIntegrateClampFirst(th, omega, u) ==
    LET new_omega == Clip(omega + OmegaDotDt(th, u), -max_speed, max_speed)
    IN  <<th + TimesDt(new_omega), new_omega>>
StepIntegrateNoClip(th, omega, u) ==
    LET new_omega == omega + OmegaDotDt(th, u)
    IN  <<th + TimesDt(new_omega), new_omega>>
\* the integration of PendulumSwingUpEnv.step: <<new_theta, new_omega>>
StepIntegrate(th, omega, u) ==
    LET new_omega == omega + OmegaDotDt(th, u)
        new_theta == th + TimesDt(new_omega)
    IN  <<new_theta, Clip(new_omega, -max_speed, max_speed)>>

StepTorqueNoClip(u) == u
\* the torque PendulumSwingUpEnv.step applies for the action u
StepTorque(u) == Clip(u, -max_torque, max_torque)

\* PendulumDynamicsModel.rescale_action
rescale_action(action, b) ==
    LET a1 == Clip(action, b.min_action, b.max_action)
        a2 == b.low + ((b.high - b.low) * (a1 - b.min_action))
                        \div (b.max_action - b.min_action)
    IN  Clip(a2, b.low, b.high)

\* the torque PendulumDynamicsModel.predict applies for the action
PredictTorque(action, b) == Clip(rescale_action(action, b), -max_torque, max_torque)

\* the integration of PendulumDynamicsModel.predict: <<new_theta, new_omega>>
PredictIntegrate(theta, omega, u) ==
    LET new_omega == omega + OmegaDotDt(theta, u)
        new_theta == theta + TimesDt(new_omega)
    IN  <<new_theta, Clip(new_omega, -max_speed, max_speed)>>

\* PendulumDynamicsModel.predict(obs, action): u, decoded and new state, next_obs
Predict(obs, action, b) ==
    LET u  == PredictTorque(action, b)
        rs == GetReducedState(obs)
        ns == PredictIntegrate(rs[1], rs[2], u)
    IN  [op |-> "predict", obs |-> obs, action |-> action, u |-> u,
         reduced |-> rs, new_state |-> ns, next_obs |-> GetObs(ns)]

NoStep == [op |-> "none", pre |-> <<0, 0>>, action |-> 0, u |-> 0, reward |-> 0,
           post |-> <<0, 0>>, next_obs |-> <<0, 0, 0>>, terminated |-> FALSE, truncated |-> FALSE]
NoReset == [op |-> "none", seed |-> 0, obs |-> <<0, 0, 0>>]
NoPred == [op |-> "none", obs |-> <<0, 0, 0>>, action |-> 0, u |-> 0,
           reduced |-> <<0, 0>>, new_state |-> <<0, 0>>, next_obs |-> <<0, 0, 0>>]

\* ------------------------------------------------------------ environment
\* states of a numpy generator are 0..GenPeriod-1; where it starts is set by
\* the process (OS entropy), never by the seed given to train or to reset:
\* the runs below start it at 2, a second process at GenPeriod - 1
GenPeriod == 9
NextGen(p) == (p + 4) % GenPeriod

\* np_random.uniform(low, high) when the generator gives its k-th value:
\* low, the middle, or just under high
UniformAt(low, high, k) ==
    IF k % 3 = 0 THEN low ELSE IF k % 3 = 1 THEN (low + high) \div 2 ELSE high - 1

ResetDrawKeepOmega(noise, p) ==
    LET nth == noise * (ANGLE_UNITS \div OMEGA_UNITS)
    IN  <<UniformAt(PI - nth, PI + nth, p), state[2]>>
\* the state reset draws: uniform(x0 - reset_noise_scale, x0 + reset_noise_scale)
\* with x0 = (pi, 0); p is the generator's state
ResetDraw(noise, p) ==
    LET nth == noise * (ANGLE_UNITS \div OMEGA_UNITS)
    IN  <<UniformAt(PI - nth, PI + nth, p), UniformAt(0 - noise, 0 + noise, p \div 3)>>

\* PendulumSwingUpEnv.__init__
EnvConstructed ==
    /\ state = <<0, 0>>
    /\ last_u = <<>>
    /\ env_calls = 0
    /\ last_step = NoStep
    /\ last_reset = NoReset
    /\ last_pred = NoPred

\* PendulumSwingUpEnv.reset(seed): the seed is not used
EnvReset(seed) ==
    /\ state' = ResetDraw(reset_noise_scale, env_np_random)
    /\ env_np_random' = NextGen(env_np_random)
    /\ last_u' = <<>>
    /\ last_reset' = [op |-> "reset", seed |-> seed, obs |-> GetObs(state')]
    /\ UNCHANGED <<reset_noise_scale, action_bounds, last_step, last_pred>>

StepTerminatedAtMaxSpeed(ns) == Abs(ns[2]) = max_speed
\* the terminated and truncated flags step returns for the new state ns
StepTerminated(ns) == FALSE
StepTruncated(ns) == FALSE

\* PendulumSwingUpEnv.step(u)
EnvStep(a) ==
    /\ LET reward == StepReward(state, a)
           u      == StepTorque(a)
           ns     == StepIntegrate(state[1], state[2], u)
       IN  /\ last_u' = <<u>>
           /\ state' = ns
           /\ last_step' = [op |-> "step", pre |-> state, action |-> a, u |-> u,
                            reward |-> reward, post |-> ns, next_obs |-> GetObs(ns),
                            terminated |-> StepTerminated(ns),
                            truncated |-> StepTruncated(ns)]
    /\ UNCHANGED <<reset_noise_scale, action_bounds, env_np_random,
                   last_reset, last_pred>>

EnvPredictStoring(s, a) ==
    /\ last_pred' = Predict(GetObs(s), a, action_bounds)
    /\ state' = last_pred'.new_state
    /\ UNCHANGED <<last_u, reset_noise_scale, action_bounds,
                   env_np_random, env_calls, last_step, last_reset>>
\* PendulumDynamicsModel.predict on the observation of the state s
EnvPredict(s, a) ==
    /\ last_pred' = Predict(GetObs(s), a, action_bounds)
    /\ UNCHANGED <<state, last_u, reset_noise_scale, action_bounds,
                   env_np_random, env_calls, last_step, last_reset>>

\* env.reward_model().predict on the observation of the state s
EnvRewardPredict(s, a) ==
    /\ last_pred' = [op |-> "reward_predict", obs |-> GetObs(s), action |-> a,
                     reward |-> RewardPredict(GetObs(s), a)]
    /\ UNCHANGED <<state, last_u, reset_noise_scale, action_bounds,
                   env_np_random, env_calls, last_step, last_reset>>

\* ------------------------------------------------------------ trainer bounds
\* largest max_train_steps; the values of rollout_steps, num_envs and
\* exploration_steps
MaxTrainSteps == 3
RolloutSteps == {1, 2}
NumEnvs == {1, 2}
ExplorationSteps == {1, 2}
\* largest train_freq, self.train_steps, eval_freq
MaxTrainFreq == 2
MaxUpdates == 2
MaxEvalFreq == 3
\* average rewards eval_policy can return: 0..MaxReward
MaxReward == 1
Rewards == 0..MaxReward

\* the configurations of the trainer
Configs ==
    [max_train_steps : 1..MaxTrainSteps, rollout_steps : RolloutSteps,
     num_envs : NumEnvs, exploration_steps : ExplorationSteps,
     train_freq : 1..MaxTrainFreq, train_steps : 1..MaxUpdates,
     eval_freq : 1..MaxEvalFreq, use_wandb : BOOLEAN]

\* ------------------------------------------------------------ trainer state
VARIABLES
    pc,                 \* position in ModelBasedTrainer.train
    cfg,                \* the trainer's configuration (self.* settings)
    rng,                \* self.rng
    eval_rng,           \* local eval_rng
    rng_keys,           \* local rng_keys
    train_rng,          \* local train_rng
    learning_steps,     \* local learning_steps
    step,               \* local step: <<>> while unbound, <<n>> once bound
    it,                 \* position of the iterator of range(learning_steps)
    updates,            \* position of the iterator of range(self.train_steps)
    train_steps,        \* local train_steps, the train-step counter
    best_performance,   \* local best_performance: <<>> while unbound
    obs,                \* local obs
    transitions,        \* local transitions
    batch,              \* local batch
    agent_rng,          \* local agent_rng
    buffer,             \* self.buffer: the transitions added, in order
    action_np_random,   \* state of the generator of env.action_space
    records,            \* the reward_log / train_log records built
    wandb_log,          \* the records handed to wandb.log
    log,                \* the calls made to the collaborators, in order
    key_uses,           \* the keys split or handed to a consumer, in order
    first_run,          \* the log of an earlier run from the same seed, or <<>>
    first_final         \* the locals the earlier run ended with, or <<>>

train_vars == <<pc, cfg, rng, eval_rng, rng_keys, train_rng, learning_steps, step,
                it, updates, train_steps, best_performance, obs, transitions,
                batch, agent_rng, buffer, action_np_random, records, wandb_log,
                log, key_uses, first_run, first_final>>

vars == <<env_vars, train_vars>>

\* ------------------------------------------------------------ jax.random
\* a key is the path of splits that leads to it from the seed key
SeedKey == <<0>>

\* random.split(key, n): n new keys
Split(key, n) == [i \in 1..n |-> Append(key, i)]

RECURSIVE KeySum(_)
KeySum(key) == IF key = <<>> THEN 0 ELSE Head(key) + 2 * KeySum(Tail(key))

\* random.randint(key, (1,), minval, maxval).item(): a value fixed by the key;
\* minval is returned when maxval <= minval
RandInt(key, minval, maxval) ==
    LET span == IF maxval <= minval THEN 1 ELSE maxval - minval
    IN  minval + (KeySum(key) % span)

\* ------------------------------------------------------------ trainer helpers
\* one call to a collaborator
Ev(op, iter, tag, name, n, key, val) ==
    [op |-> op, iter |-> iter, tag |-> tag, name |-> name, n |-> n, key |-> key,
     val |-> val]

\* one record built for the metrics sink
Rec(kind, env_steps, has_train_steps, ts, value) ==
    [kind |-> kind, env_steps |-> env_steps, has_train_steps |-> has_train_steps,
     train_steps |-> ts, value |-> value]

\* one use of a key: as the input of random.split, or by the consumer it is
\* handed to
Use(key, by) == [key |-> key, by |-> by]

\* lines 21-23: if self.use_wandb, the two wandb.define_metric calls
DefineMetrics ==
    IF cfg.use_wandb
    THEN <<Rec("define_metric_env_steps", 0, FALSE, 0, 0),
           Rec("define_metric_train_steps", 0, FALSE, 0, 0)>>
    ELSE <<>>

\* if self.use_wandb: wandb.log(r)
WandbLog(r) == IF cfg.use_wandb THEN Append(wandb_log, r) ELSE wandb_log

NoTransitions == [n |-> 0, from |-> "none", val |-> <<>>]
NoBatch == [key |-> <<>>, size |-> 0]

\* the rewards eval_policy can return now; eval_policy is a function of its
\* inputs, so a run that has repeated an earlier run so far repeats its result
EvalOutcomes ==
    IF /\ Len(first_run) > Len(log)
       /\ SubSeq(first_run, 1, Len(log)) = log
       /\ first_run[Len(log) + 1].op = "eval_policy"
    THEN {first_run[Len(log) + 1].val[1]}
    ELSE Rewards

\* int(self.max_train_steps / (self.rollout_steps * self.num_envs))
LearningSteps(c) == c.max_train_steps \div (c.rollout_steps * c.num_envs)

TrainsAtEndOfPeriod(s, c) == (s + 1) % c.train_freq = 0
\* step % self.train_freq == 0
TrainsAt(s, c) == s % c.train_freq = 0

EvaluatesAtOnlyWithSink(ts, c) == c.use_wandb /\ ts % c.eval_freq = 0
\* train_steps % self.eval_freq == 0
EvaluatesAt(ts, c) == ts % c.eval_freq = 0

ExceedsBestOrEqual(eval_reward, best) == eval_reward >= best
\* eval_reward > best_performance
ExceedsBest(eval_reward, best) == eval_reward > best

\* ------------------------------------------------------------ train()
\* lines 21-33: the initial evaluation
InitialEval ==
    /\ pc = "start"
    /\ LET k == Split(rng, 2)
           e == Split(k[2], 2)
       IN  /\ rng' = k[1]
           /\ eval_rng' = e[1]
           /\ key_uses' = key_uses \o <<Use(rng, "split"), Use(k[2], "split"),
                                        Use(e[2], "eval_policy")>>
           /\ \E average_reward \in EvalOutcomes :
                /\ log' = Append(log, Ev("eval_policy", -1, -1, "", 0, e[2],
                                         <<average_reward>>))
                /\ best_performance' = <<average_reward>>
                /\ records' = Append(records,
                                     Rec("reward", 0, FALSE, 0, average_reward))
    /\ wandb_log' = wandb_log \o DefineMetrics
    /\ train_steps' = 0
    /\ pc' = "save_initial"
    /\ UNCHANGED <<cfg, rng_keys, train_rng, learning_steps, step, it,
                   updates, obs, transitions, batch, agent_rng, buffer,
                   action_np_random, first_run, first_final, env_vars>>

SaveInitialIfPositive ==
    /\ pc = "save_initial"
    /\ log' = IF best_performance[1] > 0
              THEN Append(log, Ev("save_agent", -1, 0, "default", 0, <<>>, <<>>))
              ELSE log
    /\ wandb_log' = WandbLog(records[Len(records)])
    /\ pc' = "explore"
    /\ UNCHANGED <<cfg, rng, eval_rng, rng_keys, train_rng, learning_steps,
                   step, it, updates, train_steps, best_performance, obs,
                   transitions, batch, agent_rng, buffer, action_np_random,
                   records, key_uses, first_run, first_final, env_vars>>
\* lines 34-36: save_agent(0), then the initial record goes to the sink
SaveInitial ==
    /\ pc = "save_initial"
    /\ log' = Append(log, Ev("save_agent", -1, 0, "default", 0, <<>>, <<>>))
    /\ wandb_log' = WandbLog(records[Len(records)])
    /\ pc' = "explore"
    /\ UNCHANGED <<cfg, rng, eval_rng, rng_keys, train_rng, learning_steps,
                   step, it, updates, train_steps, best_performance, obs,
                   transitions, batch, agent_rng, buffer, action_np_random,
                   records, key_uses, first_run, first_final, env_vars>>

\* the policy of lines 37-38 called once: num_envs samples of the action
\* space, drawn from the generator of the action space; its arguments x, y
\* (the observation and the key) are not used
RandomPolicy(gen, num_envs) == [s \in 1..num_envs |-> gen + s - 1]

\* rollout_policy(num_steps, policy, rng): num_steps calls of the policy
RECURSIVE RolloutDraws(_, _, _)
RolloutDraws(num_steps, gen, num_envs) ==
    IF num_steps = 0 THEN <<>>
    ELSE RandomPolicy(gen, num_envs)
         \o RolloutDraws(num_steps - 1, gen + num_envs, num_envs)

\* the transitions rollout_policy returns: one for each of its num_steps steps
RolloutPolicy(num_steps, gen, num_envs) ==
    [n |-> num_steps, from |-> "rollout_policy",
     val |-> RolloutDraws(num_steps, gen, num_envs)]

\* lines 37-39: the exploration rollout with the random policy
Explore ==
    /\ pc = "explore"
    /\ LET rolled == RolloutPolicy(cfg.exploration_steps, action_np_random,
                                   cfg.num_envs)
       IN  /\ transitions' = rolled
           /\ log' = Append(log, Ev("rollout_policy", -1, -1, "",
                                    cfg.exploration_steps, rng, rolled.val))
           /\ action_np_random' = action_np_random + Len(rolled.val)
    /\ key_uses' = Append(key_uses, Use(rng, "rollout_policy"))
    /\ pc' = "add_exploration"
    /\ UNCHANGED <<cfg, rng, eval_rng, rng_keys, train_rng, learning_steps,
                   step, it, updates, train_steps, best_performance, obs,
                   batch, agent_rng, buffer, records, wandb_log, first_run,
                   first_final, env_vars>>

AddExplorationForgotten ==
    /\ pc = "add_exploration"
    /\ pc' = "reset"
    /\ UNCHANGED <<cfg, rng, eval_rng, rng_keys, train_rng, learning_steps,
                   step, it, updates, train_steps, best_performance, obs,
                   transitions, batch, agent_rng, buffer, action_np_random,
                   records, wandb_log, log, key_uses, first_run, first_final,
                   env_vars>>
\* line 40: self.buffer.add(transition=transitions)
AddExploration ==
    /\ pc = "add_exploration"
    /\ buffer' = Append(buffer, transitions)
    /\ log' = Append(log, Ev("buffer.add", -1, -1, "", transitions.n, <<>>,
                             transitions.val))
    /\ pc' = "reset"
    /\ UNCHANGED <<cfg, rng, eval_rng, rng_keys, train_rng, learning_steps,
                   step, it, updates, train_steps, best_performance, obs,
                   transitions, batch, agent_rng, action_np_random, records,
                   wandb_log, key_uses, first_run, first_final, env_vars>>

\* lines 41-52: the per-iteration keys, learning_steps, the reset seed, env.reset
SplitAndReset ==
    /\ pc = "reset"
    /\ LET keys  == Split(rng, cfg.max_train_steps + 1)
           rest  == Tail(keys)
           kk    == Split(rest[1], 2)
           ls    == LearningSteps(cfg)
           reset_seed == RandInt(kk[2], 0, ls * cfg.rollout_steps)
       IN  /\ rng' = keys[1]
           /\ rng_keys' = [rest EXCEPT ![1] = kk[1]]
           /\ learning_steps' = ls
           /\ EnvReset(reset_seed)
           /\ obs' = GetObs(state')
           /\ log' = Append(log, Ev("env.reset", -1, reset_seed, "", 0, kk[2],
                                    state'))
           /\ key_uses' = key_uses \o <<Use(rng, "split"), Use(rest[1], "split"),
                                        Use(kk[2], "randint")>>
           /\ pc' = IF ls > 0 THEN "rollout" ELSE "final"
    /\ it' = 0
    /\ UNCHANGED <<cfg, eval_rng, train_rng, step, updates, train_steps,
                   best_performance, transitions, batch, agent_rng, buffer,
                   action_np_random, records, wandb_log, first_run, first_final,
                   env_calls>>

\* lines 53-56: the loop binds step, splits the iteration's key, step_env.
\* step_env belongs to DummyTrainer: what it returns is named by the key it
\* was given, and how it steps the environment is not followed here
Rollout ==
    /\ pc = "rollout"
    /\ step' = <<it>>
    /\ LET k == Split(rng_keys[it + 1], 2)
       IN  /\ train_rng' = k[2]
           /\ transitions' = [n |-> cfg.rollout_steps, from |-> "step_env",
                              val |-> k[1]]
           /\ log' = Append(log, Ev("step_env", it, -1, "", cfg.rollout_steps,
                                    k[1], obs))
           /\ obs' = k[1]
           /\ key_uses' = key_uses \o <<Use(rng_keys[it + 1], "split"),
                                        Use(k[1], "step_env")>>
    /\ pc' = "add"
    /\ UNCHANGED <<cfg, rng, eval_rng, rng_keys, learning_steps, it, updates,
                   train_steps, best_performance, batch, agent_rng, buffer,
                   action_np_random, records, wandb_log, first_run, first_final,
                   env_vars>>

AddSkipped ==
    /\ pc = "add"
    /\ updates' = 0
    /\ pc' = IF TrainsAt(step[1], cfg) /\ cfg.train_steps > 0
             THEN "sample" ELSE "evaluate"
    /\ UNCHANGED <<cfg, rng, eval_rng, rng_keys, train_rng, learning_steps,
                   step, it, train_steps, best_performance, obs, transitions,
                   batch, agent_rng, buffer, action_np_random, records,
                   wandb_log, log, key_uses, first_run, first_final, env_vars>>
\* lines 57-59: self.buffer.add(transitions), then the test of train_freq
Add ==
    /\ pc = "add"
    /\ buffer' = Append(buffer, transitions)
    /\ log' = Append(log, Ev("buffer.add", it, -1, "", transitions.n, <<>>,
                             transitions.val))
    /\ updates' = 0
    /\ pc' = IF TrainsAt(step[1], cfg) /\ cfg.train_steps > 0
             THEN "sample" ELSE "evaluate"
    /\ UNCHANGED <<cfg, rng, eval_rng, rng_keys, train_rng, learning_steps,
                   step, it, train_steps, best_performance, obs, transitions,
                   batch, agent_rng, action_np_random, records, wandb_log,
                   key_uses, first_run, first_final, env_vars>>

RECURSIVE BufferSize(_)
BufferSize(b) == IF b = <<>> THEN 0 ELSE Head(b).n + BufferSize(Tail(b))

\* lines 60-61: the update's keys, then self.buffer.sample(buffer_rng, batch_size)
Sample ==
    /\ pc = "sample"
    /\ LET k == Split(train_rng, 3)
       IN  /\ train_rng' = k[1]
           /\ agent_rng' = k[2]
           /\ batch' = [key |-> k[3], size |-> BufferSize(buffer)]
           /\ log' = Append(log, Ev("buffer.sample", it, -1, "",
                                    BufferSize(buffer), k[3], <<>>))
           /\ key_uses' = key_uses \o <<Use(train_rng, "split"),
                                        Use(k[3], "buffer.sample")>>
    /\ pc' = "train_step"
    /\ UNCHANGED <<cfg, rng, eval_rng, rng_keys, learning_steps, step, it,
                   updates, train_steps, best_performance, obs, transitions,
                   buffer, action_np_random, records, wandb_log, first_run,
                   first_final, env_vars>>

\* lines 62-71: self.agent.train_step(agent_rng, batch), the counter, the record
TrainStep ==
    /\ pc = "train_step"
    /\ LET r == Rec("train", step[1], TRUE, train_steps + 1, 0)
       IN  /\ log' = Append(log, Ev("agent.train_step", it, -1, "", batch.size,
                                    agent_rng, batch.key))
           /\ records' = Append(records, r)
           /\ wandb_log' = WandbLog(r)
    /\ key_uses' = Append(key_uses, Use(agent_rng, "agent.train_step"))
    /\ train_steps' = train_steps + 1
    /\ updates' = updates + 1
    /\ pc' = IF updates + 1 < cfg.train_steps THEN "sample" ELSE "evaluate"
    /\ UNCHANGED <<cfg, rng, eval_rng, rng_keys, train_rng, learning_steps,
                   step, it, best_performance, obs, transitions, batch,
                   agent_rng, buffer, action_np_random, first_run, first_final,
                   env_vars>>

\* line 87 and the loop's test
NextIteration ==
    /\ step' = <<step[1] + 1>>
    /\ it' = it + 1
    /\ pc' = IF it + 1 < learning_steps THEN "rollout" ELSE "final"

\* lines 74-87 when train_steps % eval_freq == 0: the evaluation pass, its
\* record, the checkpoint of a new best agent
Evaluate ==
    /\ pc = "evaluate"
    /\ EvaluatesAt(train_steps, cfg)
    /\ LET e == Split(eval_rng, 2)
       IN  /\ eval_rng' = e[1]
           /\ key_uses' = key_uses \o <<Use(eval_rng, "split"),
                                        Use(e[2], "eval_policy")>>
           /\ \E eval_reward \in EvalOutcomes :
                LET r == Rec("reward", train_steps, FALSE, 0, eval_reward)
                    called == Append(log, Ev("eval_policy", it, -1, "", 0, e[2],
                                             <<eval_reward>>))
                IN  /\ records' = Append(records, r)
                    /\ wandb_log' = WandbLog(r)
                    /\ IF ExceedsBest(eval_reward, best_performance[1])
                       THEN /\ best_performance' = <<eval_reward>>
                            /\ log' = Append(called, Ev("save_agent", it, step[1],
                                                        "default", 0, <<>>, <<>>))
                       ELSE /\ best_performance' = best_performance
                            /\ log' = called
    /\ NextIteration
    /\ UNCHANGED <<cfg, rng, rng_keys, train_rng, learning_steps, updates,
                   train_steps, obs, transitions, batch, agent_rng, buffer,
                   action_np_random, first_run, first_final, env_vars>>

\* lines 74 and 87 when train_steps % eval_freq != 0
SkipEvaluate ==
    /\ pc = "evaluate"
    /\ ~EvaluatesAt(train_steps, cfg)
    /\ NextIteration
    /\ UNCHANGED <<cfg, rng, eval_rng, rng_keys, train_rng, learning_steps,
                   updates, train_steps, best_performance, obs, transitions,
                   batch, agent_rng, buffer, action_np_random, records,
                   wandb_log, log, key_uses, first_run, first_final, env_vars>>

\* line 88: self.save_agent(step, agent_name="final_agent"); reading step
\* while it is unbound raises UnboundLocalError
FinalSave ==
    /\ pc = "final"
    /\ IF step = <<>>
       THEN /\ pc' = "raised"
            /\ log' = log
       ELSE /\ pc' = "done"
            /\ log' = Append(log, Ev("save_agent", it, step[1],
                                     "final_agent", 0, <<>>, <<>>))
    /\ UNCHANGED <<cfg, rng, eval_rng, rng_keys, train_rng, learning_steps,
                   step, it, updates, train_steps, best_performance, obs,
                   transitions, batch, agent_rng, buffer, action_np_random,
                   records, wandb_log, key_uses, first_run, first_final,
                   env_vars>>

\* the locals and collaborators of a trainer about to run train()
TrainerFresh ==
    /\ pc = "start"
    /\ rng = SeedKey
    /\ eval_rng = <<>>
    /\ rng_keys = <<>>
    /\ train_rng = <<>>
    /\ learning_steps = 0
    /\ step = <<>>
    /\ it = 0
    /\ updates = 0
    /\ train_steps = 0
    /\ best_performance = <<>>
    /\ obs = <<>>
    /\ transitions = NoTransitions
    /\ batch = NoBatch
    /\ agent_rng = <<>>
    /\ buffer = <<>>
    /\ records = <<>>
    /\ wandb_log = <<>>
    /\ log = <<>>
    /\ key_uses = <<>>

\* the locals a run of train() ends with
Final ==
    [pc |-> pc, use_wandb |-> cfg.use_wandb, train_steps |-> train_steps, step |-> step,
     learning_steps |-> learning_steps, best_performance |-> best_performance,
     buffer |-> buffer]

\* a second run of train() from the same seed and configuration: in the same
\* process, where the numpy generators go on from where the first run left
\* them, or in a new process, where they start from new entropy
Rerun ==
    /\ pc \in {"done", "raised"}
    /\ first_run = <<>>
    /\ first_run' = log
    /\ first_final' = <<Final>>
    /\ key_uses' = <<>>
    /\ pc' = "start"
    /\ rng' = SeedKey
    /\ eval_rng' = <<>>
    /\ rng_keys' = <<>>
    /\ train_rng' = <<>>
    /\ learning_steps' = 0
    /\ step' = <<>>
    /\ it' = 0
    /\ updates' = 0
    /\ train_steps' = 0
    /\ best_performance' = <<>>
    /\ obs' = <<>>
    /\ transitions' = NoTransitions
    /\ batch' = NoBatch
    /\ agent_rng' = <<>>
    /\ buffer' = <<>>
    /\ records' = <<>>
    /\ wandb_log' = <<>>
    /\ log' = <<>>
    /\ state' = <<0, 0>>
    /\ last_u' = <<>>
    /\ UNCHANGED <<env_calls, last_step, last_reset, last_pred>>
    /\ \/ UNCHANGED <<env_np_random, action_np_random>>
       \/ /\ env_np_random' = GenPeriod - 1
          /\ action_np_random' = 1
    /\ UNCHANGED <<cfg, reset_noise_scale, action_bounds>>

\* a second run of train() from the same seed, with the numpy generators
\* where the first run found them and with the other setting of use_wandb
RerunOtherSink ==
    /\ pc \in {"done", "raised"}
    /\ first_run = <<>>
    /\ first_run' = log
    /\ first_final' = <<Final>>
    /\ cfg' = [cfg EXCEPT !.use_wandb = ~cfg.use_wandb]
    /\ key_uses' = <<>>
    /\ pc' = "start"
    /\ rng' = SeedKey
    /\ eval_rng' = <<>>
    /\ rng_keys' = <<>>
    /\ train_rng' = <<>>
    /\ learning_steps' = 0
    /\ step' = <<>>
    /\ it' = 0
    /\ updates' = 0
    /\ train_steps' = 0
    /\ best_performance' = <<>>
    /\ obs' = <<>>
    /\ transitions' = NoTransitions
    /\ batch' = NoBatch
    /\ agent_rng' = <<>>
    /\ buffer' = <<>>
    /\ records' = <<>>
    /\ wandb_log' = <<>>
    /\ log' = <<>>
    /\ state' = <<0, 0>>
    /\ last_u' = <<>>
    /\ env_np_random' = 2
    /\ action_np_random' = 0
    /\ UNCHANGED <<env_calls, last_step, last_reset, last_pred,
                   reset_noise_scale, action_bounds>>

\* ------------------------------------------------------------ specifications
\* the trainer is not running
TrainerIdle ==
    /\ pc = "idle"
    /\ cfg = [max_train_steps |-> 1, rollout_steps |-> 1, num_envs |-> 1,
              exploration_steps |-> 1, train_freq |-> 1, train_steps |-> 1,
              eval_freq |-> 1, use_wandb |-> FALSE]
    /\ rng = SeedKey
    /\ eval_rng = <<>>
    /\ rng_keys = <<>>
    /\ train_rng = <<>>
    /\ learning_steps = 0
    /\ step = <<>>
    /\ it = 0
    /\ updates = 0
    /\ train_steps = 0
    /\ best_performance = <<>>
    /\ obs = <<>>
    /\ transitions = NoTransitions
    /\ batch = NoBatch
    /\ agent_rng = <<>>
    /\ buffer = <<>>
    /\ action_np_random = 0
    /\ records = <<>>
    /\ wandb_log = <<>>
    /\ log = <<>>
    /\ key_uses = <<>>
    /\ first_run = <<>>
    /\ first_final = <<>>

\* the environment and the dynamics model, called freely
Init ==
    /\ EnvConstructed
    /\ reset_noise_scale \in NoiseScales
    /\ action_bounds \in ActionBounds
    /\ env_np_random = 2
    /\ TrainerIdle

CallReset ==
    /\ env_calls < MaxEnvCalls
    /\ EnvReset(0)
    /\ env_calls' = env_calls + 1
    /\ UNCHANGED train_vars

CallStep ==
    /\ env_calls < MaxEnvCalls
    /\ \E a \in Actions : EnvStep(a)
    /\ env_calls' = env_calls + 1
    /\ UNCHANGED train_vars

CallPredict ==
    /\ \E s \in {state} \cup ProbeStates : \E a \in Actions : EnvPredict(s, a)
    /\ UNCHANGED train_vars

CallRewardPredict ==
    /\ \E s \in {state} \cup ProbeStates :
         \E a \in RewardActions : EnvRewardPredict(s, a)
    /\ UNCHANGED train_vars

Next == CallReset \/ CallStep \/ CallPredict \/ CallRewardPredict

Spec == Init /\ [][Next]_vars

\* one run of train()
TrainInit ==
    /\ EnvConstructed
    /\ reset_noise_scale = 2
    /\ action_bounds \in ActionBounds
    /\ action_bounds.min_action = action_bounds.low
    /\ env_np_random = 2
    /\ action_np_random = 0
    /\ cfg \in Configs
    /\ TrainerFresh
    /\ first_run = <<>>
    /\ first_final = <<>>

TrainNext ==
    \/ InitialEval \/ SaveInitial \/ Explore \/ AddExploration \/ SplitAndReset
    \/ Rollout \/ Add \/ Sample \/ TrainStep \/ Evaluate \/ SkipEvaluate
    \/ FinalSave

TrainSpec == TrainInit /\ [][TrainNext]_vars

\* two runs of train() from the same seed and configuration, one after the other
RerunSpec == TrainInit /\ [][TrainNext \/ Rerun]_vars

\* two runs of train() that differ in use_wandb only, one after the other;
\* the length of the exploration rollout is held at one step
SinkInit == TrainInit /\ cfg.exploration_steps = 1

SinkSpec == SinkInit /\ [][TrainNext \/ RerunOtherSink]_vars

\* ------------------------------------------------------------ properties
\* the angular velocity before the clamp, for a state s and a torque u
Unclamped(s, u) == s[2] + OmegaDotDt(s[1], u)

StepMade == last_step.op = "step"
PredictMade == last_pred.op = "predict"

\* C1 as claimed: in step and in predict the new angle is the old angle
\* advanced by the clamped new angular velocity, the one stored in the new state
C1_AngleAdvancesByStoredVelocity ==
    /\ StepMade => last_step.post[1] = last_step.pre[1] + TimesDt(last_step.post[2])
    /\ PredictMade =>
         last_pred.new_state[1] = last_pred.reduced[1] + TimesDt(last_pred.new_state[2])

\* C1 amended: in step and in predict the new angle is the old angle advanced
\* by the new angular velocity before it is clamped; the clamp to
\* [-max_speed, max_speed] is applied afterwards, to the stored velocity only
C1_AngleAdvancesByUnclampedVelocity ==
    /\ StepMade =>
         LET w == Unclamped(last_step.pre, last_step.u)
         IN  last_step.post = <<last_step.pre[1] + TimesDt(w),
                                Clip(w, -max_speed, max_speed)>>
    /\ PredictMade =>
         LET w == Unclamped(last_pred.reduced, last_pred.u)
         IN  last_pred.new_state = <<last_pred.reduced[1] + TimesDt(w),
                                     Clip(w, -max_speed, max_speed)>>

\* a step whose new angular velocity was clamped
C1_Witness ==
    /\ StepMade
    /\ Abs(Unclamped(last_step.pre, last_step.u)) > max_speed
    /\ last_step.post[1] # last_step.pre[1] + TimesDt(last_step.post[2])

\* C2: the stored angular velocity is within [-max_speed, max_speed] in every
\* state reached by reset and step calls (reset_noise_scale <= max_speed)
C2_SpeedBounded ==
    reset_noise_scale <= max_speed => Abs(state[2]) <= max_speed

\* the environment holds the result of a step that ran into the lower clamp
C2_Witness ==
    /\ StepMade
    /\ state = last_step.post
    /\ Unclamped(last_step.pre, last_step.u) < -max_speed
    /\ state[2] = -max_speed

\* C3: the torque step and predict integrate with, and the last_u step
\* records, is within [-max_torque, max_torque] whatever the action
C3_TorqueBounded ==
    /\ last_u # <<>> => Abs(last_u[1]) <= max_torque
    /\ StepMade =>
         /\ Abs(last_step.u) <= max_torque
         /\ \E u \in -max_torque..max_torque :
              last_step.post[2] = Clip(Unclamped(last_step.pre, u),
                                       -max_speed, max_speed)
    /\ PredictMade =>
         /\ Abs(last_pred.u) <= max_torque
         /\ \E u \in -max_torque..max_torque :
              last_pred.new_state[2] = Clip(Unclamped(last_pred.reduced, u),
                                            -max_speed, max_speed)

\* a step and a predict call, both given an action beyond the torque bound
C3_Witness ==
    /\ StepMade /\ Abs(last_step.action) > max_torque /\ last_u = <<last_step.u>>
    /\ PredictMade /\ Abs(last_pred.action) > max_torque

\* C4: the reward step returns is the reward of the state before the step and
\* of the action as given: -(normalize(theta)^2 + 0.1 omega^2) minus the
\* control cost of the unclamped action, which differs from the cost of the
\* torque applied when the action is beyond the torque bound
C4_RewardOfCurrentObsAndRawAction ==
    StepMade =>
      /\ last_step.reward =
           state_non_sparse_reward(last_step.pre[1], last_step.pre[2])
           - input_cost(last_step.action)
      /\ Abs(last_step.action) > max_torque =>
           /\ last_step.u # last_step.action
           /\ last_step.reward #
                state_non_sparse_reward(last_step.pre[1], last_step.pre[2])
                - input_cost(last_step.u)

\* a step from a moved state with an action beyond the torque bound
C4_Witness ==
    /\ StepMade
    /\ Abs(last_step.action) > max_torque
    /\ last_step.pre # <<0, 0>>
    /\ last_step.post # last_step.pre

\* predict was called on the observation of the state the last step started from
SameStart == StepMade /\ PredictMade /\ last_pred.obs = GetObs(last_step.pre)

\* C5 as claimed: predict on the observation of a state returns the next
\* observation step produces from that state with the same action
C5_PredictEqualsStepOnSameAction ==
    (SameStart /\ last_pred.action = last_step.action)
        => last_pred.next_obs = last_step.next_obs

\* C5 amended: predict rescales its action from [min_action, max_action] to
\* [low, high] first, so it returns the next observation step produces from
\* that state whenever step is given the torque
\* clip(rescale_action(action)) that predict applies
C5_PredictEqualsStepOnSameTorque ==
    (SameStart /\ PredictTorque(last_pred.action, action_bounds)
                    = StepTorque(last_step.action))
        => last_pred.next_obs = last_step.next_obs

\* the two were given different actions, apply the same torque and start
\* from an angle beyond pi, which predict decodes into (-pi, pi]
C5_Witness ==
    /\ SameStart
    /\ last_pred.action # last_step.action
    /\ PredictTorque(last_pred.action, action_bounds) = StepTorque(last_step.action)
    /\ last_step.pre[1] > PI
    /\ last_pred.reduced[1] < 0

\* ------------------------------------------------------------ trainer properties
Finished == pc \in {"done", "raised"}

\* the calls of one kind, as positions of the log
Calls(op) == {i \in DOMAIN log : log[i].op = op}
\* the evaluation passes of the learning phase
LearningEvals == {i \in Calls("eval_policy") : log[i].iter >= 0}
\* the checkpoints of the learning phase that are not the final one
BestSaves == {i \in Calls("save_agent") : log[i].iter >= 0 /\ log[i].name = "default"}

Max(S) == CHOOSE x \in S : \A y \in S : y <= x

\* the rewards returned by the evaluation passes before position i
RewardsBefore(i) == {log[j].val[1] : j \in {k \in Calls("eval_policy") : k < i}}

\* C6 as claimed: between rollout iterations the learning phase has run one
\* evaluation pass for each positive multiple of eval_freq the train-step
\* counter has reached, and every evaluation pass of the learning phase
\* follows an update of its own rollout iteration
C6_OneEvalPerEvalFreqTrainSteps ==
    /\ pc \in {"rollout", "final", "done"} =>
         Cardinality(LearningEvals) = train_steps \div cfg.eval_freq
    /\ \A i \in LearningEvals :
         \E j \in Calls("agent.train_step") : j < i /\ log[j].iter = log[i].iter

\* the watermark is the largest reward any evaluation pass has returned; in
\* the learning phase a checkpoint follows an evaluation pass exactly when its
\* reward is greater than all earlier ones, tagged with the iteration's index
C7_State ==
    /\ best_performance # <<>> =>
         best_performance[1] = Max(RewardsBefore(Len(log) + 1))
    /\ \A i \in LearningEvals :
         (log[i].val[1] > Max(RewardsBefore(i)))
            <=> (i + 1 \in BestSaves /\ log[i + 1].tag = log[i].iter)
    /\ \A i \in BestSaves : i - 1 \in LearningEvals

\* the watermark, once set, never decreases
C7_Step ==
    best_performance # <<>> =>
        /\ best_performance' # <<>>
        /\ best_performance'[1] >= best_performance[1]

\* C7: the watermark is the maximum of the rewards returned so far and never
\* decreases; a non-final checkpoint is saved in the learning phase if and
\* only if the evaluation just run returned more than the watermark, and it
\* is tagged with the index of the current rollout iteration
C7_WatermarkIsMaxAndGatesCheckpoints == [](C7_State) /\ [][C7_Step]_vars

\* a run where one evaluation of a later iteration beat the watermark and was
\* checkpointed, and another one equalled the watermark and was not
C7_Witness ==
    /\ \E i \in LearningEvals :
         /\ log[i].iter >= 1
         /\ i + 1 \in BestSaves
         /\ log[i + 1].tag = log[i].iter
    /\ \E i \in LearningEvals :
         /\ log[i].val[1] = Max(RewardsBefore(i))
         /\ i + 1 \notin BestSaves

\* C8 as claimed: train always returns, and its last checkpoint operation is
\* the one save_agent call named "final_agent", tagged with the number of
\* rollout iterations performed
C8_EndsWithOneFinalSave ==
    Finished =>
      /\ pc = "done"
      /\ log[Len(log)].op = "save_agent"
      /\ log[Len(log)].name = "final_agent"
      /\ log[Len(log)].tag = learning_steps
      /\ Cardinality({i \in Calls("save_agent") : log[i].name = "final_agent"}) = 1

\* the buffer.add calls of the exploration phase
ExplorationAdds == {i \in Calls("buffer.add") : log[i].iter = -1}

\* C9: the exploration phase makes one buffer.add call, which holds exactly
\* the exploration_steps transitions the random-policy rollout returned, and
\* every buffer.sample and agent.train_step call comes after it
C9_ExplorationInsertedOnceBeforeTraining ==
    /\ Cardinality(ExplorationAdds) <= 1
    /\ \A i \in ExplorationAdds :
         /\ log[i].n = cfg.exploration_steps
         /\ i > 1 /\ log[i - 1].op = "rollout_policy"
         /\ log[i].val = log[i - 1].val
    /\ \A i \in Calls("buffer.sample") \cup Calls("agent.train_step") :
         \E j \in ExplorationAdds : j < i
    /\ pc \notin {"start", "save_initial", "explore", "add_exploration"} =>
         /\ Cardinality(ExplorationAdds) = 1
         /\ buffer # <<>>
         /\ buffer[1].from = "rollout_policy"
         /\ buffer[1].n = cfg.exploration_steps
    /\ pc = "reset" =>
         /\ BufferSize(buffer) = cfg.exploration_steps
         /\ train_steps = 0

\* a run that has trained on a buffer holding a two-transition exploration
C9_Witness ==
    /\ cfg.exploration_steps = 2
    /\ Calls("agent.train_step") # {}
    /\ ExplorationAdds # {}
    /\ buffer[1].n = 2

\* C10 as claimed: a second run of train from the same seed and the same
\* configuration makes the same calls with the same values as the first
C10_SameSeedSameTrajectory ==
    (first_run # <<>> /\ Finished) => log = first_run

\* ------------------------------------------------------------ random keys
\* the positions of key_uses that use the key k
UsesOf(k) == {i \in DOMAIN key_uses : key_uses[i].key = k}

\* C11 as claimed: no key is used twice during train: a key that was split or
\* handed to a consumer (eval_policy, rollout_policy, the reset-seed draw,
\* step_env, buffer.sample, agent.train_step) is never split or handed to a
\* consumer again
C11_NoKeyUsedTwice ==
    \A i \in DOMAIN key_uses : UsesOf(key_uses[i].key) = {i}

\* ------------------------------------------------------------ metrics sink
\* this run is the second of two that differ in use_wandb
OtherSinkRun == first_final # <<>> /\ first_final[1].use_wandb # cfg.use_wandb

\* C12: a run of train with the other setting of use_wandb makes the same
\* eval_policy, save_agent, rollout_policy, buffer.add, env.reset, step_env,
\* buffer.sample and agent.train_step calls with the same arguments, in the
\* same order, and ends at the same place with the same counters, watermark
\* and buffer; only what is handed to wandb differs
C12_SinkDoesNotAffectControlFlow ==
    OtherSinkRun =>
      /\ Len(log) <= Len(first_run)
      /\ SubSeq(first_run, 1, Len(log)) = log
      /\ Finished => /\ log = first_run
                     /\ Final = [first_final[1] EXCEPT !.use_wandb = cfg.use_wandb]

\* a second run, with the sink, that has trained, evaluated and checkpointed
\* a new best agent after a first run without the sink
C12_Witness ==
    /\ OtherSinkRun
    /\ cfg.use_wandb
    /\ pc = "done"
    /\ Len(wandb_log) > 3
    /\ BestSaves # {}
    /\ Calls("agent.train_step") # {}

\* ------------------------------------------------------------ reset, queries
\* s is within reset_noise_scale of (pi, 0)
InResetRange(s) ==
    LET nth == reset_noise_scale * (ANGLE_UNITS \div OMEGA_UNITS)
    IN  /\ PI - nth <= s[1] /\ s[1] <= PI + nth
        /\ -reset_noise_scale <= s[2] /\ s[2] <= reset_noise_scale

\* every transition of Spec is one call, and which call shows in what it
\* counts and draws: reset and step are counted, only reset draws from the
\* generator, the queries of the two models are not counted
ResetCalled == env_calls' = env_calls + 1 /\ env_np_random' # env_np_random
StepCalled == env_calls' = env_calls + 1 /\ env_np_random' = env_np_random
QueryCalled == env_calls' = env_calls

\* what C13 says of one reset call: the new state is a draw around (pi, 0)
\* that is fixed by the noise scale and the generator, not by the old state;
\* last_u is None; the observation returned encodes the new state
C13_Reset ==
    ResetCalled =>
      /\ InResetRange(state')
      /\ state' = ResetDraw(reset_noise_scale, env_np_random)
      /\ last_u' = <<>>
      /\ last_reset'.op = "reset"
      /\ last_reset'.obs = <<Cos(state'[1]), Sin(state'[1]), state'[2]>>

\* C13: after every reset, whatever calls came before, theta is in
\* [pi - reset_noise_scale, pi + reset_noise_scale], omega in
\* [-reset_noise_scale, reset_noise_scale], last_u is None, the observation
\* returned is the encoding of the new state, and the new state does not
\* depend on the state before the reset
C13_ResetPostcondition == [][C13_Reset]_vars

\* a reset made after a step had taken the state out of the reset range
C13_Witness ==
    /\ last_reset.op = "reset"
    /\ StepMade
    /\ last_u = <<>>
    /\ ~InResetRange(last_step.post)
    /\ last_step.u # 0
    /\ InResetRange(state)
    /\ last_reset.obs = GetObs(state)

\* what C14 says of one query of the dynamics model or of the reward model
C14_Query ==
    QueryCalled =>
      /\ last_pred'.op \in {"predict", "reward_predict"}
      /\ state' = state
      /\ last_u' = last_u
      /\ env_np_random' = env_np_random
      /\ last_step' = last_step
      /\ last_reset' = last_reset

\* what C14 says of one step: its result is fixed by the state and the action
C14_Step ==
    StepCalled =>
      \E a \in Actions :
        /\ last_step'.pre = state
        /\ last_step'.post = StepIntegrate(state[1], state[2], StepTorque(a))
        /\ last_step'.reward = StepReward(state, a)
        /\ last_step'.next_obs = GetObs(last_step'.post)
        /\ state' = last_step'.post

\* C14: PendulumDynamicsModel.predict and the reward model's predict leave
\* the environment's state, last_u and generator as they are, and what step
\* returns is fixed by the state and the action, so it is the same with and
\* without such calls before it
C14_QueriesLeaveEnvironmentAlone == [][C14_Query /\ C14_Step]_vars

\* a step that moved the state, made after predict was called on the
\* observation of the state it started from with another action
C14_Witness ==
    /\ SameStart
    /\ last_pred.action # last_step.action
    /\ last_pred.new_state # last_step.post
    /\ last_step.pre # <<0, 0>>
    /\ last_step.post # last_step.pre
    /\ state = last_step.post

\* C15: the terminated and truncated flags returned by step are false,
\* whatever the state, the action and the number of steps so far
C15_StepNeverEndsEpisode ==
    StepMade => (~last_step.terminated /\ ~last_step.truncated)

\* the last of MaxEnvCalls calls is a step that ran into the speed bound
C15_Witness ==
    /\ StepMade
    /\ env_calls = MaxEnvCalls
    /\ state = last_step.post
    /\ last_u # <<>>
    /\ Abs(state[2]) = max_speed
    /\ ~last_step.terminated
    /\ ~last_step.truncated

\* ------------------------------------------------------------ start of train
\* the calls that collect, store or learn
WorkCalls ==
    Calls("rollout_policy") \cup Calls("buffer.add") \cup Calls("env.reset")
    \cup Calls("step_env") \cup Calls("buffer.sample")
    \cup Calls("agent.train_step")

\* C16: the first call of train is an evaluation pass, whose reward is the
\* watermark until the learning phase; the second is save_agent(0) under the
\* default name, whatever that reward; the exploration rollout, every
\* buffer.add and every train_step come after both
C16_StartsWithEvalThenSave ==
    /\ log # <<>> =>
         /\ log[1].op = "eval_policy"
         /\ log[1].iter = -1
    /\ pc \in {"save_initial", "explore", "add_exploration", "reset"} =>
         best_performance = log[1].val
    /\ pc \notin {"start", "save_initial"} => Len(log) >= 2
    /\ Len(log) >= 2 =>
         /\ log[2].op = "save_agent"
         /\ log[2].tag = 0
         /\ log[2].name = "default"
    /\ \A i \in WorkCalls : i > 2
    /\ (buffer # <<>> \/ train_steps > 0) => Len(log) >= 2

\* a run that went on to train after an initial evaluation that returned the
\* lowest reward, and one evaluation of the learning phase returned more
C16_Witness ==
    /\ pc = "done"
    /\ log[1].val = <<0>>
    /\ log[2].op = "save_agent"
    /\ Calls("agent.train_step") # {}
    /\ BestSaves # {}

\* ------------------------------------------------------------ one iteration
\* the calls of one kind made in rollout iteration i
IterCalls(op, i) == {k \in Calls(op) : log[k].iter = i}

\* the number of updates made in rollout iteration i
UpdatesIn(i) == Cardinality(IterCalls("agent.train_step", i))

\* the number of updates rollout iteration i is to make
UpdatesDue(i) == IF i % cfg.train_freq = 0 THEN cfg.train_steps ELSE 0

\* C17: the calls of the learning phase come iteration by iteration, and in
\* each iteration in the order step_env, buffer.add, then for each update one
\* buffer.sample followed at once by one agent.train_step on the batch
\* sampled, then the evaluation pass if there is one, after all the updates
\* of the iteration
C17_IterationIsSequenced ==
    /\ \A i \in DOMAIN log : \A j \in DOMAIN log :
         i < j => log[i].iter <= log[j].iter
    /\ \A i \in 0..it :
         /\ Cardinality(IterCalls("step_env", i)) <= 1
         /\ Cardinality(IterCalls("buffer.add", i)) <= 1
         /\ Cardinality(IterCalls("eval_policy", i)) <= 1
    /\ \A a \in Calls("buffer.add") :
         log[a].iter >= 0 =>
           /\ log[a - 1].op = "step_env"
           /\ log[a - 1].iter = log[a].iter
           /\ log[a].val = log[a - 1].key
    /\ \A j \in Calls("buffer.sample") :
         /\ \E a \in IterCalls("buffer.add", log[j].iter) : a < j
         /\ log[j - 1].op \in {"buffer.add", "agent.train_step"}
         /\ IF j < Len(log)
            THEN /\ log[j + 1].op = "agent.train_step"
                 /\ log[j + 1].iter = log[j].iter
                 /\ log[j + 1].val = log[j].key
            ELSE pc = "train_step"
    /\ \A k \in Calls("agent.train_step") : log[k - 1].op = "buffer.sample"
    /\ \A e \in LearningEvals :
         /\ \E a \in IterCalls("buffer.add", log[e].iter) : a < e
         /\ \A k \in IterCalls("buffer.sample", log[e].iter)
                     \cup IterCalls("agent.train_step", log[e].iter) : k < e
         /\ UpdatesIn(log[e].iter) = UpdatesDue(log[e].iter)
         /\ log[e - 1].op \in {"buffer.add", "agent.train_step"}

\* a finished run in which a later iteration made two updates and then an
\* evaluation pass, and another iteration made no update
C17_Witness ==
    /\ pc = "done"
    /\ \E e \in LearningEvals : log[e].iter >= 1 /\ UpdatesIn(log[e].iter) = 2
    /\ \E i \in 0..(it - 1) : UpdatesIn(i) = 0

\* ------------------------------------------------------------ updates
\* the least integer not below a / b
CeilDiv(a, b) == (a + b - 1) \div b

\* the training-metrics records built so far
TrainRecords == SelectSeq(records, LAMBDA r : r.kind = "train")

\* the counter, the updates and the training records of every state
C18_State ==
    /\ \A i \in 0..(it - 1) : UpdatesIn(i) = UpdatesDue(i)
    /\ pc \in {"add", "sample", "train_step", "evaluate"} =>
         UpdatesIn(it) <= UpdatesDue(it)
    /\ pc = "evaluate" => UpdatesIn(it) = UpdatesDue(it)
    /\ pc \in {"rollout", "final", "done", "raised"} =>
         train_steps = CeilDiv(it, cfg.train_freq) * cfg.train_steps
    /\ train_steps = Cardinality(Calls("agent.train_step"))
    /\ train_steps = Len(TrainRecords)
    /\ \A j \in DOMAIN TrainRecords : TrainRecords[j].train_steps = j

\* the counter never decreases and grows by one, with one update and one
\* training record
C18_Step ==
    /\ train_steps' >= train_steps
    /\ train_steps' # train_steps =>
         /\ train_steps' = train_steps + 1
         /\ Len(log') = Len(log) + 1
         /\ log'[Len(log')].op = "agent.train_step"
         /\ Len(records') = Len(records) + 1
         /\ records'[Len(records')].kind = "train"
         /\ records'[Len(records')].train_steps = train_steps'

\* C18: rollout iteration i makes self.train_steps updates if i is a
\* multiple of train_freq and none otherwise; the train-step counter grows by
\* one with each update and never decreases, so after k iterations it is
\* ceil(k / train_freq) * self.train_steps; each update builds one
\* training-metrics record
C18_UpdatesEveryTrainFreq == [](C18_State) /\ [][C18_Step]_vars

\* three iterations with train_freq = 2 and two updates each time: four
\* updates, in iterations 0 and 2
C18_Witness ==
    /\ pc = "done"
    /\ it = 3
    /\ cfg.train_freq = 2
    /\ cfg.train_steps = 2
    /\ train_steps = 4
    /\ UpdatesIn(1) = 0
    /\ UpdatesIn(2) = 2

\* ------------------------------------------------------------ records
\* C19 as claimed: along the records of one run (the initial evaluation
\* record, the training-metrics records, the evaluation records) env_steps
\* never decreases, and train_steps never decreases among the records that
\* carry it
C19_RecordCountersMonotonic ==
    \A i \in DOMAIN records : \A j \in DOMAIN records :
      i < j =>
        /\ records[i].env_steps <= records[j].env_steps
        /\ (records[i].has_train_steps /\ records[j].has_train_steps) =>
             records[i].train_steps <= records[j].train_steps

====
